---- MODULE Spec2Model ----
(***************************************************************************)
(* Contact-form pipeline of digilima-website.                              *)
(*   src/api/contact.js      the Submission Handler (serverless function)  *)
(*   src/assets/js/main.js   the Client Form Controller                    *)
(* Strings are sequences of one-character strings; a JavaScript value is a *)
(* record carrying its type tag.                                           *)
(***************************************************************************)
EXTENDS Integers, Sequences, FiniteSets, TLC

\* ------------------------------------------------------------------ bounds
\* longest e-mail string the caller tries (the shortest well-formed one has 5)
MaxEmailLen == 5
\* number of handler invocations one caller makes with its payload
MaxInvocations == 2
\* number of submit events the visitor fires on the form
MaxSubmits == 2
\* largest number of translatable elements, and of inputs, in a document
MaxElems == 2
\* a number of matching elements standing for "several"
Several == 2

\* ------------------------------------------------------- JavaScript values
JS(t, s, b, n) == [t |-> t, s |-> s, b |-> b, n |-> n]
Undef == JS("undefined", <<>>, FALSE, 0)
Str(s) == JS("string", s, FALSE, 0)
Bool(b) == JS("boolean", <<>>, b, 0)
Num(n) == JS("number", <<>>, FALSE, n)

\* ToBoolean, as applied by `!x`, `x ? a : b` and `x || y`
Truthy(v) ==
    CASE v.t = "undefined" -> FALSE
      [] v.t = "boolean" -> v.b
      [] v.t = "number" -> v.n # 0
      [] v.t = "string" -> Len(v.s) > 0

\* x || fallback
OrElse(v, fallback) == IF Truthy(v) THEN v ELSE fallback

\* String.prototype.includes
Includes(s, needle) ==
    \E i \in 0..(Len(s) - Len(needle)) :
        \A k \in 1..Len(needle) : s[i + k] = needle[k]

\* ------------------------------------------------------------ e-mail regex
Whitespace == {" "}
\* the character class [^\s@]
NotSpaceAt(c) == c \notin (Whitespace \cup {"@"})
AllNotSpaceAt(s, i, j) == \A k \in i..j : NotSpaceAt(s[k])

\* a plausible slip: the pattern without its "\." part, /^[^\s@]+@[^\s@]+$/
EmailRegexNoDot(s) ==
    \E i \in 1..Len(s) :
        /\ s[i] = "@"
        /\ 1 <= i - 1 /\ AllNotSpaceAt(s, 1, i - 1)
        /\ i + 1 <= Len(s) /\ AllNotSpaceAt(s, i + 1, Len(s))

\* /^[^\s@]+@[^\s@]+\.[^\s@]+$/.test(s)
EmailRegexTest(s) ==
    \E i \in 1..Len(s), j \in 1..Len(s) :
        /\ s[i] = "@" /\ s[j] = "."
        /\ 1 <= i - 1 /\ AllNotSpaceAt(s, 1, i - 1)
        /\ i + 1 <= j - 1 /\ AllNotSpaceAt(s, i + 1, j - 1)
        /\ j + 1 <= Len(s) /\ AllNotSpaceAt(s, j + 1, Len(s))

\* --------------------------------------------------------- request bodies
RECURSIVE StringsUpTo(_, _)
StringsUpTo(alphabet, n) ==
    IF n = 0 THEN {<<>>}
    ELSE LET shorter == StringsUpTo(alphabet, n - 1)
         IN  shorter \cup {Append(s, c) : s \in shorter, c \in alphabet}

EmailAlphabet == {"a", "@", ".", " "}
Jane == <<"J">>
JaneMail == <<"a", "@", "a", ".", "a">>
Hi == <<"H", "i">>

Body(name, email, phone, company, budget, projectType, message, consent, website) ==
    [kind |-> "object", name |-> name, email |-> email, phone |-> phone,
     company |-> company, budget |-> budget, projectType |-> projectType,
     message |-> message, consent |-> consent, website |-> website]

\* a request without a parsed body: req.body is undefined
NoBody ==
    [Body(Undef, Undef, Undef, Undef, Undef, Undef, Undef, Undef, Undef)
        EXCEPT !.kind = "undefined"]

TextValues == {Undef, Str(<<>>), Str(<<"v">>)}
BudgetValues == {Undef, Str(<<>>), Str(<<"5", "0", "0", "0">>),
                 Str(<<"1", "0", "0", "0", "0", "+">>), Num(5000)}
ConsentValues == {Undef, Bool(TRUE), Bool(FALSE), Num(0), Num(1), Str(<<>>),
                  Str(<<"f", "a", "l", "s", "e">>)}

\* every combination of the required fields, the consent and the honeypot
RequiredSweep ==
    {Body(n, e, Undef, Undef, Undef, Undef, m, c, w) :
        n \in {Undef, Str(<<>>), Str(Jane)},
        e \in {Undef, Str(<<>>), Str(JaneMail), Str(<<"a", "@", "a">>)},
        m \in {Undef, Str(<<>>), Str(Hi)},
        c \in ConsentValues,
        w \in TextValues}

\* every e-mail string up to MaxEmailLen on an otherwise valid payload
EmailSweep ==
    {Body(Str(Jane), Str(e), Undef, Undef, Undef, Undef, Str(Hi), Bool(TRUE), Undef) :
        e \in StringsUpTo(EmailAlphabet, MaxEmailLen)}

\* every combination of the optional fields on an otherwise valid payload
OptionalSweep ==
    {Body(Str(Jane), Str(JaneMail), p, c, b, t, Str(Hi), Bool(TRUE), Str(<<>>)) :
        p \in TextValues, c \in TextValues, b \in BudgetValues, t \in TextValues}

Bodies == RequiredSweep \cup EmailSweep \cup OptionalSweep \cup {NoBody}

Methods == {"POST", "OPTIONS", "GET"}

NodeEnvs == {"production", "development"}

\* ---------------------------------------------------------------- state
VARIABLES
    payload,    \* req.body of the caller's requests
    method,     \* req.method of the current invocation
    pc,         \* position of the handler: idle, sendNotification, sendAutoReply, done
    nInv,       \* invocations started so far
    headers,    \* response headers set in the current invocation
    bodyRead,   \* the current invocation has destructured req.body
    emailData,  \* result of the first resend.emails.send (0: none yet)
    out,        \* responses written in the current invocation
    thrown,     \* message of the exception raised in the current invocation
    escaped,    \* an exception left the handler in the current invocation
    calls,      \* the provider's log of send calls, over all invocations
    log,        \* method and status of each finished invocation
    currentLang, \* main.js: the page's display language
    form,       \* values of the contact form's controls
    marks,      \* is-valid / is-invalid class of each required field
    feedback,   \* text of each required field's .invalid-feedback element
    btn,        \* the submit button: disabled flag, spinner, text
    formMsg,    \* the alert shown in .form-messages
    subs,       \* the handleFormSubmit calls that reached fetch
    running,    \* index in subs of the call whose continuation is executing
    nSubmits,   \* submit events fired so far
    events,     \* gtag events emitted
    liveRegion, \* text announced to assistive technology
    markup,     \* the document as served: what a reload restores
    dom,        \* the live document: root attributes, translatable elements,
                \* language toggles, inputs with translated placeholders
    storedLang, \* localStorage['digilima_lang'] ("" when the key is absent)
    urlLang,    \* the lang parameter of the page URL ("" when absent)
    loaded,     \* unloaded, ready (init ran through), failed (init threw)
    lastSwitch, \* language of the switchLanguage call made by the last step
    chosen,     \* language of the toggle the visitor clicked last
    counts,     \* number of elements matching each selector init looks up
    bound,      \* the initializers init() has run to completion
    blurred     \* the field whose blur listeners ran in the last step

serverVars == <<payload, method, pc, nInv, headers, bodyRead, emailData, out,
                thrown, escaped, calls, log>>

formVars == <<form, marks, feedback, btn, formMsg, subs, running, nSubmits,
              events, liveRegion>>

langVars == <<markup, dom, storedLang, urlLang, loaded, lastSwitch, chosen,
              counts, bound>>

pageVars == <<langVars, blurred>>

clientVars == <<currentLang, formVars, pageVars>>

vars == <<serverVars, clientVars>>

\* ------------------------------------------------------------- responses
MissingFieldsMsg == "Missing required fields. Please fill in all required information."
HoneypotMsg == "Form submission failed. Please try again."
InvalidEmailMsg == "Please enter a valid email address."
MethodMsg == "Method not allowed"
GenericErrorMsg == "Sorry, there was an error sending your message. Please try again or contact us directly at hello@digilima.com."
SuccessMsg == "Thank you! Your message has been sent successfully. We'll get back to you within 24 hours."

Response(status, kind, success, error, message, emailId, details) ==
    [status |-> status, kind |-> kind, success |-> success, error |-> error,
     message |-> message, emailId |-> emailId, details |-> details]

\* res.status(s).end()
EndResponse(status) == Response(status, "empty", FALSE, "", "", 0, "")
\* res.status(s).json({ error })
ErrorResponse(status, error) == Response(status, "json", FALSE, error, "", 0, "")

\* a handler answering with the id of the wrong send
SuccessResponseLastId(data) ==
    Response(200, "json", TRUE, "", SuccessMsg, Len(calls), "")

\* res.status(200).json({ success: true, message, emailId: emailData.id })
SuccessResponse(data) ==
    Response(200, "json", TRUE, "", SuccessMsg, data, "")

\* a catch block that reports what was delivered instead of failing
CatchResponsePartial(msg, env) ==
    IF emailData # 0
    THEN Response(200, "json", TRUE, "", SuccessMsg, emailData, "")
    ELSE Response(500, "json", FALSE, GenericErrorMsg, "", 0,
                  IF env = "development" THEN msg ELSE "")

\* the catch block: res.status(500).json({ error, details })
CatchResponse(msg, env) ==
    Response(500, "json", FALSE, GenericErrorMsg, "", 0,
             IF env = "development" THEN msg ELSE "")

\* the four res.setHeader calls
CorsHeaders ==
    {<<"Access-Control-Allow-Credentials", "true">>,
     <<"Access-Control-Allow-Origin", "*">>,
     <<"Access-Control-Allow-Methods", "GET,OPTIONS,PATCH,DELETE,POST,PUT">>,
     <<"Access-Control-Allow-Headers",
       "X-CSRF-Token, X-Requested-With, Accept, Accept-Version, Content-Length, Content-MD5, Content-Type, Date, X-Api-Version">>}

\* ------------------------------------------------------------- rendering
Section(label, cls, value) == [label |-> label, cls |-> cls, value |-> value]
Line(label, value) == [label |-> label, value |-> value]
BlankLine == Line("", <<>>)

\* a template that renders the optional section unconditionally
AlwaysSection(label, cls, v) == <<Section(label, cls, v.s)>>

\* ${v ? `<div class="field">...${v}...</div>` : ''}
OptionalSection(label, cls, v) ==
    IF Truthy(v) THEN <<Section(label, cls, v.s)>> ELSE <<>>

\* ${v ? `Label: ${v}` : ''} on a line of its own
OptionalLine(label, v) ==
    IF Truthy(v) THEN Line(label, v.s) ELSE BlankLine

\* budget.includes('10000+') ? 'priority-high' : budget.includes('5000') ? 'priority-medium' : ''
BudgetClass(budget) ==
    IF Includes(budget.s, <<"1", "0", "0", "0", "0", "+">>) THEN "priority-high"
    ELSE IF Includes(budget.s, <<"5", "0", "0", "0">>) THEN "priority-medium"
    ELSE ""

\* the field sections of htmlContent
HtmlContent(b) ==
    <<Section("Name", "", b.name.s), Section("Email", "", b.email.s)>>
    \o OptionalSection("Phone", "", b.phone)
    \o OptionalSection("Company", "", b.company)
    \o OptionalSection("Budget Range", BudgetClass(b.budget), b.budget)
    \o OptionalSection("Project Type", "", b.projectType)
    \o <<Section("Message", "", b.message.s),
         Section("GDPR Consent", "", <<"Customer has provided consent to be contacted">>)>>

\* the lines of textContent that carry a field
TextContent(b) ==
    <<Line("Contact Information:", <<>>),
      Line("Name", b.name.s),
      Line("Email", b.email.s),
      OptionalLine("Phone", b.phone),
      OptionalLine("Company", b.company),
      BlankLine,
      Line("Project Details:", <<>>),
      OptionalLine("Budget", b.budget),
      OptionalLine("Project Type", b.projectType),
      BlankLine,
      Line("Message:", <<>>),
      Line("", b.message.s),
      BlankLine,
      Line("GDPR Consent", <<"Provided">>)>>

BusinessAddress == <<"hello@digilima.com">>
Tag(name, value) == [name |-> name, value |-> value]

SendRequest(from, to, replyTo, subject, html, text, tags) ==
    [from |-> from, to |-> to, replyTo |-> replyTo, subject |-> subject,
     html |-> html, text |-> text, tags |-> tags]

\* the argument of the first resend.emails.send
NotificationRequest(b) ==
    SendRequest("DigiLima Contact Form <noreply@digilima.com>",
                <<Str(BusinessAddress)>>,
                b.email,
                <<<<"New Contact: ">>, b.name.s, <<" - ">>,
                  OrElse(b.projectType, Str(<<"General Inquiry">>)).s,
                  IF Truthy(b.budget) THEN b.budget.s ELSE <<>>>>,
                HtmlContent(b),
                TextContent(b),
                <<Tag("source", <<"contact_form">>),
                  Tag("budget", OrElse(b.budget, Str(<<"not_specified">>)).s),
                  Tag("project_type", OrElse(b.projectType, Str(<<"general">>)).s)>>)

\* the argument of the second resend.emails.send
AutoReplyRequest(b) ==
    SendRequest("DigiLima <hello@digilima.com>",
                <<b.email>>,
                Undef,
                <<<<"Thank you for contacting DigiLima - We'll be in touch soon!">>>>,
                <<Section("Thank you", "", b.name.s),
                  Section("Dear", "", b.name.s),
                  Section("inquiry about", "",
                          OrElse(b.projectType, Str(<<"your project">>)).s)>>,
                <<Line("Dear", b.name.s),
                  Line("inquiry about",
                       OrElse(b.projectType, Str(<<"your project">>)).s)>>,
                <<Tag("type", <<"auto_reply">>)>>)

Call(inv, req, outcome, id) == [inv |-> inv, req |-> req, outcome |-> outcome, id |-> id]

\* ------------------------------------------------------------ validation
\* a gate that lets every method but OPTIONS through to the POST path
MethodGateNo405(m) ==
    IF m = "OPTIONS" THEN "preflight" ELSE "accepted"

\* if (req.method === 'OPTIONS') ... if (req.method !== 'POST') ...
MethodGate(m) ==
    IF m = "OPTIONS" THEN "preflight"
    ELSE IF m # "POST" THEN "rejected"
    ELSE "accepted"

\* !name || !email || !message || !consent
RequiredMissing(b) ==
    ~Truthy(b.name) \/ ~Truthy(b.email) \/ ~Truthy(b.message) \/ ~Truthy(b.consent)

\* a honeypot check that is skipped
HoneypotIgnored(b) == FALSE

\* if (website)
HoneypotFilled(b) == Truthy(b.website)

\* a handler that remembers who it has already notified and rejects repeats
ValidateOnce(b) ==
    IF RequiredMissing(b) THEN MissingFieldsMsg
    ELSE IF HoneypotFilled(b) THEN HoneypotMsg
    ELSE IF ~EmailRegexTest(b.email.s) THEN InvalidEmailMsg
    ELSE IF \E k \in 1..Len(calls) :
                calls[k].outcome = "ok" /\ calls[k].req.replyTo = b.email
         THEN HoneypotMsg
    ELSE ""

\* the same checks with the honeypot looked at first
ValidateHoneypotFirst(b) ==
    IF HoneypotFilled(b) THEN HoneypotMsg
    ELSE IF RequiredMissing(b) THEN MissingFieldsMsg
    ELSE IF ~EmailRegexTest(b.email.s) THEN InvalidEmailMsg
    ELSE ""

\* the three checks, in order; "" when the payload passes
Validate(b) ==
    IF RequiredMissing(b) THEN MissingFieldsMsg
    ELSE IF HoneypotFilled(b) THEN HoneypotMsg
    ELSE IF ~EmailRegexTest(b.email.s) THEN InvalidEmailMsg
    ELSE ""

\* a try block that starts only at the first send
InTrySendsOnly(step) == step \in {"sendNotification", "sendAutoReply"}

\* the steps inside try { ... } catch
InTry(step) ==
    step \in {"readBody", "validate", "render", "sendNotification",
              "sendAutoReply", "respond"}

\* budget.includes(...) on a truthy budget that is no string
RenderThrows(b) == Truthy(b.budget) /\ b.budget.t # "string"

NotAFunctionMsg == "budget.includes is not a function"
TypeErrorMsg == "Cannot destructure property 'name' of 'req.body' as it is undefined."
ProviderErrorMsg == "provider error"

\* ---------------------------------------------------------------- actions
ServerStart(bodies) ==
    /\ payload \in bodies
    /\ method = ""
    /\ pc = "idle"
    /\ nInv = 0
    /\ headers = {}
    /\ bodyRead = FALSE
    /\ emailData = 0
    /\ out = <<>>
    /\ thrown = ""
    /\ escaped = FALSE
    /\ calls = <<>>
    /\ log = <<>>

\* the handler writes response r and returns
Finish(m, prev, r) ==
    /\ out' = Append(prev, r)
    /\ pc' = "done"
    /\ log' = Append(log, [method |-> m, status |-> r.status])

\* an exception raised at `step`
Raise(m, step, prev, msg) ==
    /\ thrown' = msg
    /\ IF InTry(step)
       THEN /\ escaped' = FALSE
            /\ \E env \in NodeEnvs : Finish(m, prev, CatchResponse(msg, env))
       ELSE /\ escaped' = TRUE
            /\ out' = prev
            /\ pc' = "done"
            /\ log' = Append(log, [method |-> m, status |-> 0])

NoThrow == thrown' = "" /\ escaped' = FALSE

\* both sends started together, neither awaited before the other
DispatchBoth(b, inv) ==
    <<Call(inv, AutoReplyRequest(b), "pending", 0),
      Call(inv, NotificationRequest(b), "pending", 0)>>

\* const emailData = await resend.emails.send(...): one call, awaited
FirstDispatch(b, inv) ==
    <<Call(inv, NotificationRequest(b), "pending", 0)>>

\* the try block up to the first await
Post(m) ==
    /\ bodyRead' = TRUE
    /\ IF payload.kind # "object"
       THEN /\ Raise(m, "readBody", <<>>, TypeErrorMsg)
            /\ calls' = calls
       ELSE IF Validate(payload) # ""
       THEN /\ NoThrow
            /\ Finish(m, <<>>, ErrorResponse(400, Validate(payload)))
            /\ calls' = calls
       ELSE IF RenderThrows(payload)
       THEN /\ Raise(m, "render", <<>>, NotAFunctionMsg)
            /\ calls' = calls
       ELSE /\ NoThrow
            /\ calls' = calls \o FirstDispatch(payload, nInv')
            /\ pc' = "sendNotification"
            /\ out' = <<>>
            /\ log' = log

\* handler(req, res) from its entry to its first await or its return
Invoke(m) ==
    /\ pc \in {"idle", "done"}
    /\ nInv < MaxInvocations
    /\ nInv' = nInv + 1
    /\ method' = m
    /\ headers' = CorsHeaders
    /\ emailData' = 0
    /\ payload' = payload
    /\ UNCHANGED clientVars
    /\ CASE MethodGate(m) = "preflight" ->
              /\ bodyRead' = FALSE /\ NoThrow /\ calls' = calls
              /\ Finish(m, <<>>, EndResponse(200))
         [] MethodGate(m) = "rejected" ->
              /\ bodyRead' = FALSE /\ NoThrow /\ calls' = calls
              /\ Finish(m, <<>>, ErrorResponse(405, MethodMsg))
         [] MethodGate(m) = "accepted" -> Post(m)

Settled(outcome) ==
    [calls EXCEPT ![Len(calls)] =
        Call(@.inv, @.req, outcome, IF outcome = "ok" THEN Len(calls) ELSE 0)]

\* the first resend.emails.send resolves or rejects
SettleNotification(outcome) ==
    /\ pc = "sendNotification"
    /\ UNCHANGED <<payload, method, nInv, headers, bodyRead>>
    /\ UNCHANGED clientVars
    /\ IF outcome = "ok"
       THEN /\ emailData' = Len(calls)
            /\ calls' = Append(Settled("ok"), Call(nInv, AutoReplyRequest(payload), "pending", 0))
            /\ pc' = "sendAutoReply"
            /\ UNCHANGED <<out, thrown, escaped, log>>
       ELSE /\ calls' = Settled("throw")
            /\ emailData' = emailData
            /\ Raise(method, "sendNotification", out, ProviderErrorMsg)

\* the second resend.emails.send resolves or rejects
SettleAutoReply(outcome) ==
    /\ pc = "sendAutoReply"
    /\ UNCHANGED <<payload, method, nInv, headers, bodyRead, emailData>>
    /\ UNCHANGED clientVars
    /\ calls' = Settled(outcome)
    /\ IF outcome = "ok"
       THEN /\ UNCHANGED <<thrown, escaped>>
            /\ Finish(method, out, SuccessResponse(emailData))
       ELSE Raise(method, "sendAutoReply", out, ProviderErrorMsg)

\* ------------------------------------------------- client form controller
Langs == {"en", "el"}

\* the form's [required] controls, in document order
RequiredFields == {"name", "email", "message", "consent"}

FormOf(name, email, message, consent, website) ==
    [name |-> name, email |-> email, message |-> message, consent |-> consent,
     website |-> website, phone |-> <<>>, company |-> <<>>, budget |-> <<>>,
     projectType |-> <<>>]

\* what form.reset() restores
EmptyForm == FormOf(<<>>, <<>>, <<>>, FALSE, <<>>)

Forms ==
    {FormOf(n, e, m, c, w) :
        n \in {<<>>, <<" ">>, Jane},
        e \in {<<>>, JaneMail, <<"a", "@", "a">>},
        m \in {<<>>, Hi},
        c \in BOOLEAN,
        w \in {<<>>, <<"x">>}}

\* label of the submit button in the page's markup
SubmitLabel == "Send Message"
NoMessage == [type |-> "none", text |-> ""]

RECURSIVE TrimLeft(_)
TrimLeft(s) ==
    IF s # <<>> /\ Head(s) \in Whitespace THEN TrimLeft(Tail(s)) ELSE s

RECURSIVE TrimRight(_)
TrimRight(s) ==
    IF s # <<>> /\ s[Len(s)] \in Whitespace
    THEN TrimRight(SubSeq(s, 1, Len(s) - 1))
    ELSE s

\* String.prototype.trim
Trim(s) == TrimRight(TrimLeft(s))

\* field.value: a checkbox reports "on" whether it is checked or not
FieldValue(fm, f) == IF f = "consent" THEN <<"o", "n">> ELSE fm[f]

\* isValidEmail
IsValidEmail(s) == EmailRegexTest(s)

RequiredFieldMsg(lang) ==
    IF lang = "el" THEN "Αυτό το πεδίο είναι υποχρεωτικό" ELSE "This field is required"
InvalidEmailFieldMsg(lang) ==
    IF lang = "el" THEN "Παρακαλώ εισάγετε έγκυρη διεύθυνση email"
    ELSE "Please enter a valid email address"

\* validateField: the verdict and the message it hands to showFieldError
ValidateField(fm, f, lang) ==
    LET value == Trim(FieldValue(fm, f))
    IN  IF f \in RequiredFields /\ value = <<>>
        THEN [valid |-> FALSE, message |-> RequiredFieldMsg(lang)]
        ELSE IF f = "email" /\ value # <<>> /\ ~IsValidEmail(value)
        THEN [valid |-> FALSE, message |-> InvalidEmailFieldMsg(lang)]
        ELSE [valid |-> TRUE, message |-> ""]

\* a validateForm that lets every form through
ValidateFormAlways(fm, lang) == TRUE

\* validateForm's verdict: every required field passes
ValidateForm(fm, lang) ==
    \A f \in RequiredFields : ValidateField(fm, f, lang).valid

\* a validateForm that stops at the first failing field, in document order
MarksShortCircuit(fm, lang) ==
    LET order == <<"name", "email", "message", "consent">>
        pos(f) == CHOOSE k \in 1..4 : order[k] = f
    IN  [f \in RequiredFields |->
            IF \E k \in 1..(pos(f) - 1) : ~ValidateField(fm, order[k], lang).valid
            THEN ""
            ELSE IF ValidateField(fm, f, lang).valid THEN "is-valid" ELSE "is-invalid"]

\* showFieldError applied to every required field by validateForm
MarksAfterValidate(fm, lang) ==
    [f \in RequiredFields |->
        IF ValidateField(fm, f, lang).valid THEN "is-valid" ELSE "is-invalid"]

FeedbackAfterValidate(fm, lang, old) ==
    [f \in RequiredFields |->
        IF ValidateField(fm, f, lang).valid THEN old[f]
        ELSE ValidateField(fm, f, lang).message]

SendingLabel(lang) == IF lang = "el" THEN "Αποστολή..." ELSE "Sending..."

\* showFormLoading(form, true)
LoadingOn(b, lang) ==
    [disabled |-> TRUE, spinner |-> TRUE, text |-> SendingLabel(lang)]

\* showFormLoading(form, false): originalText is the button's textContent
\* at the time of this call
LoadingOff(b) ==
    [disabled |-> FALSE, spinner |-> FALSE, text |-> b.text]

\* the submissionData object built from FormData
SubmissionData(fm) ==
    Body(Str(fm.name), Str(fm.email), Str(fm.phone), Str(fm.company),
         Str(fm.budget), Str(fm.projectType), Str(fm.message),
         Bool(fm.consent), Str(fm.website))

NetworkFallbackMsg(lang) ==
    IF lang = "el"
    THEN "Υπήρξε σφάλμα κατά την αποστολή της φόρμας. Παρακαλώ δοκιμάστε ξανά ή επικοινωνήστε μαζί μας άμεσα στο hello@digilima.com."
    ELSE "There was an error sending your message. Please try again or contact us directly at hello@digilima.com."

\* what fetch and response.json() can deliver
ServerAnswers ==
    {SuccessResponse(1),
     ErrorResponse(400, MissingFieldsMsg),
     ErrorResponse(400, InvalidEmailMsg),
     CatchResponse("", "production"),
     Response(502, "json", FALSE, "", "", 0, ""),
     Response(200, "json", FALSE, "", "", 0, ""),
     Response(500, "json", TRUE, "", SuccessMsg, 0, "")}
FetchOutcomes ==
    {[kind |-> "networkError", res |-> EndResponse(0)]}
    \cup {[kind |-> "unparsable", res |-> EndResponse(502)]}
    \cup {[kind |-> "json", res |-> r] : r \in ServerAnswers}

\* a client that ignores the HTTP status
ResponseOkAlways(r) == TRUE

\* response.ok
ResponseOk(r) == r.status >= 200 /\ r.status <= 299

Event(name, detail) == [name |-> name, detail |-> detail]

\* ------------------------------------------------------------ the document
\* texts of a translatable element in the two languages
Hello == "Hello"
Geia == "Γειά"

\* elements by the data-<lang> attributes they carry; the markup shows English
Both == [attrs |-> [l \in {"en", "el"} |-> IF l = "en" THEN Hello ELSE Geia],
         text |-> Hello]
OnlyEn == [attrs |-> [l \in {"en"} |-> Hello], text |-> Hello]
EmptyEl == [attrs |-> [l \in {"en", "el"} |-> IF l = "en" THEN Hello ELSE ""],
            text |-> Hello]
ElemKinds == {Both, OnlyEn, EmptyEl}

\* an input carrying data-placeholder-en and data-placeholder-el
Input == [attrs |-> [l \in {"en", "el"} |-> IF l = "en" THEN Hello ELSE Geia],
          placeholder |-> Hello]

Toggle(lang) == [lang |-> lang, active |-> lang = "en"]

RECURSIVE SeqsUpTo(_, _)
SeqsUpTo(S, n) ==
    IF n = 0 THEN {<<>>}
    ELSE LET shorter == SeqsUpTo(S, n - 1)
         IN  shorter \cup {Append(q, x) : q \in shorter, x \in S}

Document(root, elems, toggles, inputs) ==
    [htmlLang |-> IF root = "" THEN "en" ELSE root, htmlDataLang |-> root,
     elems |-> elems, toggles |-> toggles, inputs |-> inputs]

Documents ==
    {Document(root, es, ts, is) :
        root \in {"", "en", "el"},
        es \in SeqsUpTo(ElemKinds, MaxElems),
        ts \in {<<>>, <<Toggle("el")>>, <<Toggle("en"), Toggle("el")>>},
        is \in SeqsUpTo({Input}, MaxElems)}

\* a document with several elements of each kind
PlainDocument ==
    Document("en", <<Both, Both>>, <<Toggle("en"), Toggle("el")>>, <<Input, Input>>)

\* values a visitor's URL or storage may hold on arrival
LangValues == {"", "en", "el", "fr"}

\* $(selector): a lone match comes back as the element itself, anything
\* else as the NodeList
Dollar(n) == IF n = 1 THEN "Element" ELSE "NodeList"

\* the calls init() makes, in its order
Initializers ==
    <<"initLanguageFromURL", "initLanguageSwitcher", "initContactForm",
      "initNewsletterForm", "initPortfolioFilter", "initBlogFilter",
      "initBlogSearch", "initLoadMore", "initSmoothScrolling",
      "initNavbarScrollEffect", "initCustomCarousels", "initAnalyticsTracking",
      "initA11yImprovements", "initPerformanceOptimizations", "updateCopyrightYear">>

\* the initializers that call a method of what $ returned right after the
\* `if (!x) return` guard, with the selector each looks up
MethodOnResult ==
    [initContactForm |-> ".contact-form", initNewsletterForm |-> ".newsletter-form",
     initBlogSearch |-> "#blogSearch"]

\* selectors whose result goes through a length test, addEventListeners or
\* no call at all during init
OtherSelectors == {".portfolio-filter", ".navbar"}

Selectors == {MethodOnResult[f] : f \in DOMAIN MethodOnResult} \cup OtherSelectors

\* zero, exactly one, several
CountValues == {0, 1, Several}

\* a page with exactly one element for every selector
OneOfEach == [sel \in Selectors |-> 1]

\* a NodeList, empty or not, is truthy and has no addEventListener
InitThrows(f, cnt) ==
    /\ f \in DOMAIN MethodOnResult
    /\ Dollar(cnt[MethodOnResult[f]]) = "NodeList"

\* the initializers after initLanguageSwitcher that complete before the
\* first one that throws
BoundFrom(k, cnt) ==
    LET failing == {j \in k..Len(Initializers) : InitThrows(Initializers[j], cnt)}
    IN  IF failing = {} THEN Len(Initializers)
        ELSE (CHOOSE j \in failing : \A i \in failing : j <= i) - 1

\* the browser before main.js runs
PageStartWith(docs, urls, stores, state, cnts) ==
    /\ markup \in docs
    /\ dom = markup
    /\ urlLang \in urls
    /\ storedLang \in stores
    /\ loaded = state
    /\ lastSwitch = ""
    /\ chosen = ""
    /\ blurred = ""
    /\ counts \in cnts
    /\ bound = IF state = "ready" THEN Initializers ELSE <<>>

PageStart(docs, urls, stores, state) ==
    PageStartWith(docs, urls, stores, state, {OneOfEach})

\* the page before any visitor interaction
ClientStart(forms, langs) ==
    /\ currentLang \in langs
    /\ form \in forms
    /\ marks = [f \in RequiredFields |-> ""]
    /\ feedback = [f \in RequiredFields |-> ""]
    /\ btn = [disabled |-> FALSE, spinner |-> FALSE, text |-> SubmitLabel]
    /\ formMsg = NoMessage
    /\ subs = <<>>
    /\ running = 0
    /\ nSubmits = 0
    /\ events = <<>>
    /\ liveRegion = ""

Init ==
    /\ ServerStart(Bodies)
    /\ ClientStart({EmptyForm}, {"en"})
    /\ PageStart({PlainDocument}, {""}, {""}, "ready")

Next ==
    \/ \E m \in Methods : Invoke(m)
    \/ \E outcome \in {"ok", "throw"} : SettleNotification(outcome)
    \/ \E outcome \in {"ok", "throw"} : SettleAutoReply(outcome)

Spec == Init /\ [][Next]_vars

\* ---------------------------------------------------------- client actions
Submission(data, labelBefore) ==
    [pc |-> "fetch", data |-> data, labelBefore |-> labelBefore,
     outcome |-> [kind |-> "pending", res |-> EndResponse(0)]]

\* showFormMessage(type, text)
ShowFormMessage(type, text) == formMsg' = [type |-> type, text |-> text]

\* a client without the honeypot check
HoneypotUnchecked(fm) == FALSE

\* if (formData.get('website'))
HoneypotPopulated(fm) == fm.website # <<>>

\* handleFormSubmit from the submit event to its first await or its return
HandleFormSubmit ==
    /\ running = 0
    /\ nSubmits < MaxSubmits
    /\ nSubmits' = nSubmits + 1
    /\ marks' = MarksAfterValidate(form, currentLang)
    /\ feedback' = FeedbackAfterValidate(form, currentLang, feedback)
    /\ IF ~ValidateForm(form, currentLang)
       THEN UNCHANGED <<btn, formMsg, subs>>
       ELSE IF HoneypotPopulated(form)
       THEN /\ ShowFormMessage("error", "Form submission failed. Please try again.")
            /\ UNCHANGED <<btn, subs>>
       ELSE /\ btn' = LoadingOn(btn, currentLang)
            /\ subs' = Append(subs, Submission(SubmissionData(form), btn.text))
            /\ UNCHANGED formMsg
    /\ UNCHANGED <<currentLang, form, running, events, liveRegion>>
    /\ UNCHANGED pageVars
    /\ UNCHANGED serverVars

\* await fetch(...) settles: the request failed or a response arrived
FetchSettles(i, o) ==
    /\ running = 0
    /\ subs[i].pc = "fetch"
    /\ IF o.kind = "networkError"
       THEN /\ subs' = [subs EXCEPT ![i].pc = "caught", ![i].outcome = o]
            /\ running' = i
       ELSE /\ subs' = [subs EXCEPT ![i].pc = "json", ![i].outcome = o]
            /\ running' = 0
    /\ UNCHANGED <<currentLang, form, marks, feedback, btn, formMsg, nSubmits,
                   events, liveRegion>>
    /\ UNCHANGED pageVars
    /\ UNCHANGED serverVars

\* await response.json() settles: the body parsed or did not
JsonSettles(i) ==
    /\ running = 0
    /\ subs[i].pc = "json"
    /\ subs' = [subs EXCEPT ![i].pc =
                    IF subs[i].outcome.kind = "unparsable" THEN "caught" ELSE "parsed"]
    /\ running' = i
    /\ UNCHANGED <<currentLang, form, marks, feedback, btn, formMsg, nSubmits,
                   events, liveRegion>>
    /\ UNCHANGED pageVars
    /\ UNCHANGED serverVars

\* showFormLoading(form, false), on the try path and in the catch block
ClearLoading(i) ==
    /\ running = i
    /\ subs[i].pc \in {"parsed", "caught"}
    /\ btn' = LoadingOff(btn)
    /\ subs' = [subs EXCEPT ![i].pc =
                    IF subs[i].pc = "parsed" THEN "cleared" ELSE "clearedCaught"]
    /\ UNCHANGED <<currentLang, form, marks, feedback, formMsg, running, nSubmits,
                   events, liveRegion>>
    /\ UNCHANGED pageVars
    /\ UNCHANGED serverVars

\* the branch on the outcome, after the loading state was cleared
ShowOutcome(i) ==
    /\ running = i
    /\ subs[i].pc \in {"cleared", "clearedCaught"}
    /\ LET r == subs[i].outcome.res
       IN  IF subs[i].pc = "clearedCaught"
           THEN /\ ShowFormMessage("error", NetworkFallbackMsg(currentLang))
                /\ events' = Append(events, Event("form_submission_network_error", ""))
                /\ UNCHANGED <<form, liveRegion>>
           ELSE IF ResponseOk(r) /\ r.success
           THEN /\ ShowFormMessage("success", r.message)
                /\ form' = EmptyForm
                /\ events' = Append(events, Event("form_submission_success", ""))
                /\ liveRegion' = "Form submitted successfully. We'll get back to you soon!"
           ELSE /\ ShowFormMessage("error",
                        IF r.error # "" THEN r.error
                        ELSE "Something went wrong. Please try again.")
                /\ events' = Append(events, Event("form_submission_error",
                        IF r.error # "" THEN r.error ELSE "unknown_error"))
                /\ UNCHANGED <<form, liveRegion>>
    /\ subs' = [subs EXCEPT ![i].pc = "done"]
    /\ running' = 0
    /\ UNCHANGED <<currentLang, marks, feedback, btn, nSubmits>>
    /\ UNCHANGED pageVars
    /\ UNCHANGED serverVars

ClientInit ==
    /\ ServerStart({NoBody})
    /\ ClientStart(Forms, Langs)
    /\ PageStart({PlainDocument}, {""}, {""}, "ready")

ClientNext ==
    \/ HandleFormSubmit
    \/ \E i \in 1..Len(subs), o \in FetchOutcomes : FetchSettles(i, o)
    \/ \E i \in 1..Len(subs) : JsonSettles(i)
    \/ \E i \in 1..Len(subs) : ClearLoading(i)
    \/ \E i \in 1..Len(subs) : ShowOutcome(i)

ClientSpec == ClientInit /\ [][ClientNext]_vars

\* ------------------------------------------------- client and server joined
\* forms whose text carries leading or trailing whitespace, consent either way
PipelineForms ==
    {FormOf(n, e, m, c, w) :
        n \in {<<>>, <<" ", "J">>, Jane},
        e \in {<<>>, JaneMail, <<"a", "@", "a">>},
        m \in {<<" ">>, Hi, <<"H", " ">>},
        c \in BOOLEAN,
        w \in {<<>>, <<"x">>}}

\* requests that have left the browser
Delivered == {i \in 1..Len(subs) : subs[i].pc # "fetch"}

\* fetch(apiEndpoint, { method: 'POST', body: JSON.stringify(submissionData) }):
\* the request of submission i reaches the function
Deliver(i) ==
    /\ running = 0
    /\ subs[i].pc = "fetch"
    /\ pc \in {"idle", "done"}
    /\ nInv = Cardinality(Delivered)
    /\ \A j \in Delivered : subs[j].pc # "arrived"
    /\ payload' = subs[i].data
    /\ subs' = [subs EXCEPT ![i].pc = "arrived"]
    /\ UNCHANGED <<method, pc, nInv, headers, bodyRead, emailData, out, thrown,
                   escaped, calls, log>>
    /\ UNCHANGED <<currentLang, form, marks, feedback, btn, formMsg, running,
                   nSubmits, events, liveRegion>>
    /\ UNCHANGED pageVars

\* the function is invoked with the request that arrived
Serve ==
    /\ nInv < Cardinality(Delivered)
    /\ Invoke("POST")

\* what fetch resolves to for the handler's response
OutcomeOf(responses) ==
    IF responses = <<>> THEN [kind |-> "networkError", res |-> EndResponse(0)]
    ELSE IF responses[1].kind = "json" THEN [kind |-> "json", res |-> responses[1]]
    ELSE [kind |-> "unparsable", res |-> responses[1]]

\* await fetch(...) settles with the handler's response
Respond(i) ==
    /\ running = 0
    /\ subs[i].pc = "arrived"
    /\ pc = "done"
    /\ nInv = Cardinality(Delivered)
    /\ LET o == OutcomeOf(out)
       IN  IF o.kind = "networkError"
           THEN /\ subs' = [subs EXCEPT ![i].pc = "caught", ![i].outcome = o]
                /\ running' = i
           ELSE /\ subs' = [subs EXCEPT ![i].pc = "json", ![i].outcome = o]
                /\ running' = 0
    /\ UNCHANGED <<currentLang, form, marks, feedback, btn, formMsg, nSubmits,
                   events, liveRegion>>
    /\ UNCHANGED pageVars
    /\ UNCHANGED serverVars

PipelineInit ==
    /\ ServerStart({NoBody})
    /\ ClientStart(PipelineForms, Langs)
    /\ PageStart({PlainDocument}, {""}, {""}, "ready")

PipelineNext ==
    \/ HandleFormSubmit
    \/ \E i \in 1..Len(subs) : Deliver(i)
    \/ Serve
    \/ \E outcome \in {"ok", "throw"} : SettleNotification(outcome)
    \/ \E outcome \in {"ok", "throw"} : SettleAutoReply(outcome)
    \/ \E i \in 1..Len(subs) : Respond(i)
    \/ \E i \in 1..Len(subs) : JsonSettles(i)
    \/ \E i \in 1..Len(subs) : ClearLoading(i)
    \/ \E i \in 1..Len(subs) : ShowOutcome(i)

PipelineSpec == PipelineInit /\ [][PipelineNext]_vars

\* ------------------------------------------------------ real-time validation
\* showFieldError(field, isValid, message) on the marking and feedback text
ShowFieldError(st, f, isValid, message) ==
    IF isValid
    THEN [st EXCEPT !.marks[f] = "is-valid"]
    ELSE [st EXCEPT !.marks[f] = "is-invalid",
                    !.feedback[f] = IF message # "" THEN message ELSE @]

\* the blur listener validateField
OnValidateField(st, fm, f, lang) ==
    LET v == ValidateField(fm, f, lang)
    IN  ShowFieldError(st, f, v.valid, v.message)

\* the blur listener validateEmail
OnValidateEmail(st, fm, f, lang) ==
    LET value == Trim(FieldValue(fm, f))
    IN  IF value # <<>> /\ ~IsValidEmail(value)
        THEN ShowFieldError(st, f, FALSE, InvalidEmailFieldMsg(lang))
        ELSE ShowFieldError(st, f, TRUE, "")

\* what the visitor may type into a field
FieldInputs(f) ==
    CASE f = "name" -> {<<>>, <<" ">>, Jane}
      [] f = "email" -> {<<>>, JaneMail, <<"a", "@", "a">>}
      [] f = "message" -> {<<>>, Hi}

\* the input event of a required text field: the new value, then clearFieldError
TypeInto(f, v) ==
    /\ form[f] # v
    /\ form' = [form EXCEPT ![f] = v]
    /\ marks' = [marks EXCEPT ![f] = ""]
    /\ blurred' = ""
    /\ UNCHANGED <<currentLang, feedback, btn, formMsg, subs, running, nSubmits,
                   events, liveRegion>>
    /\ UNCHANGED langVars
    /\ UNCHANGED serverVars

\* the input event of the consent checkbox
ToggleConsent ==
    /\ form' = [form EXCEPT !.consent = ~@]
    /\ marks' = [marks EXCEPT !.consent = ""]
    /\ blurred' = ""
    /\ UNCHANGED <<currentLang, feedback, btn, formMsg, subs, running, nSubmits,
                   events, liveRegion>>
    /\ UNCHANGED langVars
    /\ UNCHANGED serverVars

\* the blur event of a required field: its listeners in the order
\* initContactForm bound them
Blur(f) ==
    /\ LET st0 == [marks |-> marks, feedback |-> feedback]
           st1 == OnValidateField(st0, form, f, currentLang)
           st2 == IF f = "email"
                  THEN OnValidateEmail(st1, form, f, currentLang)
                  ELSE st1
       IN  /\ marks' = st2.marks
           /\ feedback' = st2.feedback
    /\ blurred' = f
    /\ UNCHANGED <<currentLang, form, btn, formMsg, subs, running, nSubmits,
                   events, liveRegion>>
    /\ UNCHANGED langVars
    /\ UNCHANGED serverVars

FieldInit ==
    /\ ServerStart({NoBody})
    /\ ClientStart({EmptyForm}, Langs)
    /\ PageStart({PlainDocument}, {""}, {""}, "ready")

FieldNext ==
    \/ \E f \in {"name", "email", "message"} : \E v \in FieldInputs(f) : TypeInto(f, v)
    \/ ToggleConsent
    \/ \E f \in RequiredFields : Blur(f)

FieldSpec == FieldInit /\ [][FieldNext]_vars

\* -------------------------------------------------------- language switching
\* elements.forEach(...) on what $ returned: an Element has no forEach
ForEachThrows(n) == Dollar(n) = "Element"

\* indices of the members of q carrying the attribute of this language
Matching(q, lang) == {k \in 1..Len(q) : lang \in DOMAIN q[k].attrs}

\* the state the language functions work on; threw: a TypeError is unwinding
LangState ==
    [cur |-> currentLang, dom |-> dom, stored |-> storedLang, url |-> urlLang,
     threw |-> FALSE]

UpdateTranslatableElements(p, lang) ==
    LET es == p.dom.elems
        m == Matching(es, lang)
    IN  IF ForEachThrows(Cardinality(m))
        THEN [p EXCEPT !.threw = TRUE]
        ELSE [p EXCEPT !.dom.elems =
                [k \in 1..Len(es) |->
                    IF k \in m /\ es[k].attrs[lang] # ""
                    THEN [es[k] EXCEPT !.text = es[k].attrs[lang]]
                    ELSE es[k]]]

UpdateLanguageToggles(p) ==
    LET ts == p.dom.toggles
    IN  IF ForEachThrows(Len(ts))
        THEN [p EXCEPT !.threw = TRUE]
        ELSE [p EXCEPT !.dom.toggles =
                [k \in 1..Len(ts) |-> [ts[k] EXCEPT !.active = (ts[k].lang = p.cur)]]]

UpdateFormPlaceholders(p, lang) ==
    LET is == p.dom.inputs
        m == Matching(is, lang)
    IN  IF ForEachThrows(Cardinality(m))
        THEN [p EXCEPT !.threw = TRUE]
        ELSE [p EXCEPT !.dom.inputs =
                [k \in 1..Len(is) |->
                    IF k \in m /\ is[k].attrs[lang] # ""
                    THEN [is[k] EXCEPT !.placeholder = is[k].attrs[lang]]
                    ELSE is[k]]]

SwitchLanguage(p, lang) ==
    LET p1 == [p EXCEPT !.cur = lang, !.dom.htmlLang = lang,
                        !.dom.htmlDataLang = lang]
        p2 == UpdateTranslatableElements(p1, lang)
        p3 == IF p2.threw THEN p2 ELSE UpdateLanguageToggles(p2)
        p4 == IF p3.threw THEN p3 ELSE UpdateFormPlaceholders(p3, lang)
    IN  IF p4.threw THEN p4
        ELSE [p4 EXCEPT !.stored = lang,
                        !.url = IF lang = "en" THEN "" ELSE lang]

\* the language initLanguageFromURL hands to switchLanguage ("" for none)
LangOnLoad(url, stored) ==
    IF url \in {"en", "el"} THEN url
    ELSE IF stored \in {"en", "el"} THEN stored
    ELSE ""

InitLanguageFromURL(p) ==
    IF LangOnLoad(p.url, p.stored) # ""
    THEN SwitchLanguage(p, LangOnLoad(p.url, p.stored))
    ELSE p

InitLanguageSwitcher(p) ==
    UpdateLanguageToggles(
        [p EXCEPT !.cur = IF p.dom.htmlDataLang # "" THEN p.dom.htmlDataLang
                          ELSE "en"])

Becomes(p) ==
    /\ currentLang' = p.cur
    /\ dom' = p.dom
    /\ storedLang' = p.stored
    /\ urlLang' = p.url

\* init(): the initializers in order up to the first that throws; only the
\* first two touch the language state; the 'loaded' class is the last step
Load ==
    /\ loaded = "unloaded"
    /\ LET p1 == InitLanguageFromURL(LangState)
           p2 == IF p1.threw THEN p1 ELSE InitLanguageSwitcher(p1)
           n == IF p1.threw THEN 0
                ELSE IF p2.threw THEN 1
                ELSE BoundFrom(3, counts)
       IN  /\ Becomes(p2)
           /\ bound' = SubSeq(Initializers, 1, n)
           /\ loaded' = IF n = Len(Initializers) THEN "ready" ELSE "failed"
    /\ lastSwitch' = LangOnLoad(urlLang, storedLang)
    /\ UNCHANGED <<markup, chosen, blurred, counts>>
    /\ UNCHANGED formVars
    /\ UNCHANGED serverVars

\* the click listener of toggle k, bound by initLanguageSwitcher
Click(k) ==
    /\ loaded # "unloaded"
    /\ \E j \in 1..Len(bound) : bound[j] = "initLanguageSwitcher"
    /\ LET newLang == dom.toggles[k].lang
       IN  /\ chosen' = newLang
           /\ IF newLang # currentLang
              THEN /\ Becomes(SwitchLanguage(LangState, newLang))
                   /\ lastSwitch' = newLang
              ELSE /\ Becomes(LangState)
                   /\ lastSwitch' = ""
    /\ UNCHANGED <<markup, loaded, blurred, counts, bound>>
    /\ UNCHANGED formVars
    /\ UNCHANGED serverVars

\* the visitor reloads: the document as served, the script's initial
\* currentLang; URL and storage stay
Reload ==
    /\ loaded # "unloaded"
    /\ dom' = markup
    /\ currentLang' = "en"
    /\ loaded' = "unloaded"
    /\ lastSwitch' = ""
    /\ bound' = <<>>
    /\ UNCHANGED <<markup, storedLang, urlLang, chosen, blurred, counts>>
    /\ UNCHANGED formVars
    /\ UNCHANGED serverVars

LangInit ==
    /\ ServerStart({NoBody})
    /\ ClientStart({EmptyForm}, {"en"})
    /\ PageStart(Documents, LangValues, LangValues, "unloaded")

LangNext ==
    \/ Load
    \/ \E k \in 1..Len(dom.toggles) : Click(k)
    \/ Reload

LangSpec == LangInit /\ [][LangNext]_vars

\* ------------------------------------------------------------ initialization
\* documents with zero, one or two toggles and translatable elements
InitDocuments ==
    {Document("en", es, ts, <<Input, Input>>) :
        es \in {<<>>, <<Both>>, <<Both, Both>>},
        ts \in {<<>>, <<Toggle("el")>>, <<Toggle("en"), Toggle("el")>>}}

InitInit ==
    /\ ServerStart({NoBody})
    /\ ClientStart({EmptyForm}, {"en"})
    /\ PageStartWith(InitDocuments, {"", "el"}, {""}, "unloaded",
                     [Selectors -> CountValues])

InitNext ==
    \/ Load
    \/ \E k \in 1..Len(dom.toggles) : Click(k)
    \/ Reload

InitSpec == InitInit /\ [][InitNext]_vars

\* ------------------------------------------------------------ properties
\* the provider calls made by the current invocation
CurCalls == SelectSeq(calls, LAMBDA c : c.inv = nInv)

NonEmptyText(v) == v.t = "string" /\ v.s # <<>>
EmptyOrAbsent(v) == v.t = "undefined" \/ (v.t = "string" /\ v.s = <<>>)
TextOrAbsent(v) == v.t \in {"undefined", "string"}

\* local@domain.tld: exactly one "@", a non-empty local part, a "." after
\* the "@" with text on both sides of it, no whitespace anywhere
ShapeLocalDomainTld(s) ==
    /\ Cardinality({k \in 1..Len(s) : s[k] = "@"}) = 1
    /\ \A k \in 1..Len(s) : s[k] # " "
    /\ LET at == CHOOSE k \in 1..Len(s) : s[k] = "@"
       IN  /\ at > 1
           /\ \E d \in (at + 2)..(Len(s) - 1) : s[d] = "."

WellFormedEmail(v) == v.t = "string" /\ ShapeLocalDomainTld(v.s)

\* a ContactSubmission the data model calls valid
ValidPayload(b) ==
    /\ b.kind = "object"
    /\ NonEmptyText(b.name) /\ NonEmptyText(b.message)
    /\ WellFormedEmail(b.email)
    /\ b.consent = Bool(TRUE)
    /\ EmptyOrAbsent(b.website)
    /\ \A v \in {b.phone, b.company, b.budget, b.projectType} : TextOrAbsent(v)

Answered(status) == pc = "done" /\ Len(out) = 1 /\ out[1].status = status

\* C1: a POST whose JSON body lacks a non-empty name, email or message, or
\* whose consent is not the boolean true, is answered 400 and reaches no
\* provider send; a send is attempted only with name, email and message
\* non-empty, consent === true and website empty.
C1_DispatchOnlyWithConsent ==
    /\ (/\ pc = "done" /\ method = "POST" /\ payload.kind = "object"
        /\ \/ ~NonEmptyText(payload.name) \/ ~NonEmptyText(payload.email)
           \/ ~NonEmptyText(payload.message) \/ payload.consent # Bool(TRUE))
       => (Answered(400) /\ CurCalls = <<>>)
    /\ calls # <<>> =>
        /\ NonEmptyText(payload.name) /\ NonEmptyText(payload.email)
        /\ NonEmptyText(payload.message)
        /\ payload.consent = Bool(TRUE)
        /\ EmptyOrAbsent(payload.website)

\* C2: a POST whose body has a non-empty website field is answered 400 and
\* sends no email, whatever the other fields hold.
C2_HoneypotRejected ==
    (method = "POST" /\ payload.kind = "object" /\ NonEmptyText(payload.website))
    => /\ CurCalls = <<>>
       /\ pc \in {"idle", "done"}
       /\ pc = "done" => Answered(400)

C2_Witness ==
    /\ method = "POST" /\ pc = "done"
    /\ NonEmptyText(payload.website)
    /\ NonEmptyText(payload.name) /\ NonEmptyText(payload.message)
    /\ WellFormedEmail(payload.email) /\ payload.consent = Bool(TRUE)
    /\ out = <<ErrorResponse(400, HoneypotMsg)>>

\* C3: a POST whose email value does not have the shape local@domain.tld is
\* answered 400 and sends no email.
C3_MalformedEmailRejected ==
    (method = "POST" /\ payload.kind = "object" /\ ~WellFormedEmail(payload.email))
    => /\ CurCalls = <<>>
       /\ pc \in {"idle", "done"}
       /\ pc = "done" => Answered(400)

C3_Witness ==
    /\ method = "POST" /\ pc = "done"
    /\ NonEmptyText(payload.email) /\ ~WellFormedEmail(payload.email)
    /\ Includes(payload.email.s, <<"@">>) /\ Includes(payload.email.s, <<".">>)
    /\ out = <<ErrorResponse(400, InvalidEmailMsg)>>

C5_NoPartialSuccess ==
    (/\ pc = "done" /\ Len(CurCalls) >= 2
     /\ CurCalls[1].outcome = "ok" /\ CurCalls[2].outcome = "throw")
    => /\ Answered(500)
       /\ ~out[1].success /\ out[1].emailId = 0
       /\ out[1].error = GenericErrorMsg
       /\ Len(CurCalls) = 2
       /\ CurCalls[1].req.to = <<Str(<<"hello@digilima.com">>)>>

C5_Witness ==
    /\ pc = "done" /\ Len(CurCalls) = 2
    /\ CurCalls[1].outcome = "ok" /\ CurCalls[2].outcome = "throw"
    /\ Answered(500)

\* C6: an exception raised inside the handler body (reading the body,
\* rendering, either send) is caught: the invocation ends with exactly one
\* response, a 500 carrying the generic message, and nothing escapes.
C6_ExceptionsCaught ==
    thrown # ""
    => /\ ~escaped
       /\ Answered(500)
       /\ out[1].kind = "json" /\ ~out[1].success
       /\ out[1].error = "Sorry, there was an error sending your message. Please try again or contact us directly at hello@digilima.com."

C6_Witness ==
    /\ thrown = TypeErrorMsg /\ payload.kind = "undefined" /\ Answered(500)

\* C7: OPTIONS is answered 200 with an empty body and any method other than
\* POST and OPTIONS 405, both without reading the body or sending; the CORS
\* headers are set on the response of every request.
C7_MethodGate ==
    /\ (pc = "done" /\ method = "OPTIONS")
       => (Answered(200) /\ out[1].kind = "empty" /\ ~bodyRead /\ CurCalls = <<>>)
    /\ (pc = "done" /\ method \notin {"OPTIONS", "POST"})
       => (Answered(405) /\ ~bodyRead /\ CurCalls = <<>>)
    /\ nInv > 0
       => /\ <<"Access-Control-Allow-Origin", "*">> \in headers
          /\ <<"Access-Control-Allow-Methods", "GET,OPTIONS,PATCH,DELETE,POST,PUT">> \in headers
          /\ \E h \in headers : h[1] = "Access-Control-Allow-Headers"

C7_Witness ==
    /\ pc = "done" /\ method = "GET" /\ Answered(405) /\ ValidPayload(payload)
    /\ Len(log) = 2 /\ log[1].method = "OPTIONS" /\ log[1].status = 200

\* C8: the handler keeps nothing between invocations: after n POSTs of the
\* same valid payload with the provider succeeding, 2n emails were sent, two
\* per invocation, and every invocation was answered 200.
C8_NoDeduplication ==
    (/\ pc = "done" /\ ValidPayload(payload)
     /\ \A i \in 1..Len(log) : log[i].method = "POST"
     /\ \A k \in 1..Len(calls) : calls[k].outcome # "throw")
    => /\ Len(calls) = 2 * nInv
       /\ \A i \in 1..nInv :
            Cardinality({k \in 1..Len(calls) : calls[k].inv = i}) = 2
       /\ Len(log) = nInv
       /\ \A i \in 1..Len(log) : log[i].status = 200

C8_Witness ==
    /\ pc = "done" /\ nInv >= 2 /\ ValidPayload(payload)
    /\ Len(calls) = 2 * nInv
    /\ \A i \in 1..Len(log) : log[i].method = "POST" /\ log[i].status = 200

IsNotification(c) == c.req.from = "DigiLima Contact Form <noreply@digilima.com>"

Rendered(c, htmlLabel, textLabel, v) ==
    IF EmptyOrAbsent(v)
    THEN /\ \A i \in 1..Len(c.req.html) : c.req.html[i].label # htmlLabel
         /\ \A i \in 1..Len(c.req.text) : c.req.text[i].label # textLabel
    ELSE /\ \E i \in 1..Len(c.req.html) :
                c.req.html[i].label = htmlLabel /\ c.req.html[i].value = v.s
         /\ \E i \in 1..Len(c.req.text) :
                c.req.text[i].label = textLabel /\ c.req.text[i].value = v.s

\* C9: in the notification's HTML and plain text an optional field (phone,
\* company, budget, projectType) that is absent or empty has no section,
\* label or line at all, and one that is present is rendered with its value.
C9_OptionalFieldsOmitted ==
    \A k \in 1..Len(calls) :
        IsNotification(calls[k]) =>
            /\ Rendered(calls[k], "Phone", "Phone", payload.phone)
            /\ Rendered(calls[k], "Company", "Company", payload.company)
            /\ Rendered(calls[k], "Budget Range", "Budget", payload.budget)
            /\ Rendered(calls[k], "Project Type", "Project Type", payload.projectType)

C9_Witness ==
    /\ calls # <<>> /\ IsNotification(calls[1])
    /\ payload.phone = Undef /\ payload.company = Str(<<>>)
    /\ NonEmptyText(payload.budget) /\ NonEmptyText(payload.projectType)
    /\ Len(calls[1].req.html) = 6

\* C10: every submission that set the loading state has it fully cleared,
\* the button enabled again and its label back to what it was before the
\* submission, before its success or error message is shown.
C10_LoadingClearedBeforeMessage ==
    \A i \in 1..Len(subs) :
        subs[i].pc \in {"cleared", "clearedCaught"}
        => /\ ~btn.disabled /\ ~btn.spinner
           /\ btn.text = subs[i].labelBefore

IsAutoReply(c) == c.req.from = "DigiLima <hello@digilima.com>"

\* C18: within an invocation the auto-reply send starts only after the
\* notification send resolved successfully, the two are never in progress
\* together, the response is written only after both resolved, and a
\* notification that throws is followed by no auto-reply.
C18_SendsSequential ==
    /\ Cardinality({k \in 1..Len(calls) : calls[k].outcome = "pending"}) <= 1
    /\ \A k \in 1..Len(calls) :
        IsAutoReply(calls[k]) =>
            /\ k > 1
            /\ IsNotification(calls[k - 1])
            /\ calls[k - 1].inv = calls[k].inv
            /\ calls[k - 1].outcome = "ok"
    /\ \A k \in 1..Len(calls) :
        (IsNotification(calls[k]) /\ calls[k].outcome = "throw") =>
            \A j \in 1..Len(calls) :
                IsAutoReply(calls[j]) => calls[j].inv # calls[k].inv
    /\ out # <<>> => \A k \in 1..Len(calls) : calls[k].outcome # "pending"
    /\ (out # <<>> /\ out[1].status = 200 /\ method = "POST")
       => (Len(CurCalls) = 2 /\ CurCalls[1].outcome = "ok" /\ CurCalls[2].outcome = "ok")

C18_Witness ==
    /\ pc = "sendAutoReply"
    /\ Len(CurCalls) = 2
    /\ CurCalls[1].outcome = "ok" /\ IsNotification(CurCalls[1])
    /\ CurCalls[2].outcome = "pending" /\ IsAutoReply(CurCalls[2])
    /\ \E k \in 1..Len(calls) : IsNotification(calls[k]) /\ calls[k].outcome = "throw"

MissesRequired(b) ==
    \/ EmptyOrAbsent(b.name) \/ EmptyOrAbsent(b.email) \/ EmptyOrAbsent(b.message)
    \/ b.consent \in {Undef, Bool(FALSE)}

\* C19: the checks run in the order method gate, required fields, honeypot,
\* email format and only the first failure is reported; every invocation
\* ends with exactly one response, of status 200, 400, 405 or 500.
C19_CheckOrder ==
    /\ pc = "done" =>
        /\ Len(out) = 1
        /\ out[1].status \in {200, 400, 405, 500}
    /\ (pc = "done" /\ method = "GET") => out[1].error = "Method not allowed"
    /\ (pc = "done" /\ method = "POST" /\ payload.kind = "object") =>
        /\ MissesRequired(payload) =>
            out = <<ErrorResponse(400,
                "Missing required fields. Please fill in all required information.")>>
        /\ (/\ ~MissesRequired(payload) /\ payload.consent = Bool(TRUE)
            /\ NonEmptyText(payload.website))
           => out = <<ErrorResponse(400, "Form submission failed. Please try again.")>>
        /\ (/\ ~MissesRequired(payload) /\ payload.consent = Bool(TRUE)
            /\ EmptyOrAbsent(payload.website) /\ ~WellFormedEmail(payload.email))
           => out = <<ErrorResponse(400, "Please enter a valid email address.")>>

C19_Witness ==
    /\ pc = "done" /\ method = "POST"
    /\ EmptyOrAbsent(payload.name) /\ NonEmptyText(payload.website)
    /\ out = <<ErrorResponse(400, MissingFieldsMsg)>>

C19_WitnessHoneypotBeforeEmail ==
    /\ pc = "done" /\ method = "POST"
    /\ ~MissesRequired(payload) /\ NonEmptyText(payload.website)
    /\ ~WellFormedEmail(payload.email)
    /\ out = <<ErrorResponse(400, HoneypotMsg)>>

\* ------------------------------------------------- client-side properties
\* the step in which submission i shows its success or error message
Shown(i) == subs[i].pc \in {"cleared", "clearedCaught"} /\ subs'[i].pc = "done"

\* the step taken by handleFormSubmit on a submit event
SubmitEvent == nSubmits' = nSubmits + 1

Succeeded(o) == o.kind = "json" /\ o.res.status \in 200..299 /\ o.res.success

FallbackTexts ==
    {"There was an error sending your message. Please try again or contact us directly at hello@digilima.com.",
     "Υπήρξε σφάλμα κατά την αποστολή της φόρμας. Παρακαλώ δοκιμάστε ξανά ή επικοινωνήστε μαζί μας άμεσα στο hello@digilima.com."}

SuccessBranch(o) ==
    /\ formMsg' = [type |-> "success", text |-> o.res.message]
    /\ form' = EmptyForm
    /\ events' = Append(events, Event("form_submission_success", ""))
    /\ liveRegion' = "Form submitted successfully. We'll get back to you soon!"

ErrorBranch ==
    /\ formMsg'.type = "error"
    /\ form' = form
    /\ liveRegion' = liveRegion
    /\ Len(events') = Len(events) + 1
    /\ events'[Len(events')].name # "form_submission_success"

FailsValidation(fm) ==
    \/ Trim(fm.name) = <<>>
    \/ Trim(fm.message) = <<>>
    \/ ~ShapeLocalDomainTld(Trim(fm.email))

\* C13: a request is issued only by a submit event, at most one per event,
\* never afterwards on its own (no retry), and none when the form fails
\* validation or has the honeypot populated.
C13_OnePostPerSubmit ==
    [][/\ Len(subs') \in {Len(subs), Len(subs) + 1}
       /\ Len(subs') <= nSubmits'
       /\ Len(subs') = Len(subs) + 1 =>
            /\ SubmitEvent
            /\ ~FailsValidation(form)
            /\ form.website = <<>>
            /\ subs'[Len(subs')].data = SubmissionData(form)
       /\ \A i \in 1..Len(subs) : subs'[i].data = subs[i].data]_vars

C13_Witness ==
    /\ nSubmits = 1 /\ Len(subs) = 1
    /\ subs[1].pc = "done" /\ ~Succeeded(subs[1].outcome)
    /\ formMsg.type = "error"

\* C14: a submit event on an otherwise valid form with the honeypot
\* populated shows the server's honeypot text, sends nothing and leaves the
\* button alone; on an invalid form it shows no form-level message and
\* sends nothing.
C14_HoneypotAndSilentAbort ==
    [][SubmitEvent =>
        /\ (~FailsValidation(form) /\ form.website # <<>>) =>
            /\ formMsg' = [type |-> "error", text |-> HoneypotMsg]
            /\ subs' = subs /\ btn' = btn
        /\ FailsValidation(form) =>
            /\ formMsg' = formMsg
            /\ subs' = subs /\ btn' = btn]_vars

C14_Witness ==
    /\ nSubmits >= 1 /\ subs = <<>>
    /\ ~FailsValidation(form) /\ form.website # <<>>
    /\ formMsg = [type |-> "error", text |-> HoneypotMsg]
    /\ ~btn.disabled /\ ~btn.spinner

\* C15: after validateForm every required field carries the marking of its
\* own validateField verdict, whatever the other fields are, and the
\* handler goes past validation exactly when every verdict was true.
C15_NoShortCircuit ==
    [][SubmitEvent =>
        /\ \A f \in RequiredFields :
            marks'[f] = IF ValidateField(form, f, currentLang).valid
                        THEN "is-valid" ELSE "is-invalid"
        /\ \A f \in {"name", "message"} :
            marks'[f] = "is-invalid" <=> Trim(form[f]) = <<>>
        /\ marks'.email = "is-invalid" <=> ~ShapeLocalDomainTld(Trim(form.email))
        /\ IF \A f \in RequiredFields : ValidateField(form, f, currentLang).valid
           THEN \/ Len(subs') = Len(subs) + 1
                \/ formMsg'.text = HoneypotMsg
           ELSE subs' = subs /\ formMsg' = formMsg /\ btn' = btn]_vars

C15_Witness ==
    /\ nSubmits = 1 /\ subs = <<>> /\ formMsg = NoMessage
    /\ marks.name = "is-invalid" /\ marks.email = "is-valid"
    /\ marks.message = "is-invalid" /\ marks.consent = "is-valid"

\* C20: while a request is in flight, from the POST until its response or
\* failure has been processed, the submit button is disabled.
C20_DisabledWhileInFlight ==
    \A i \in 1..Len(subs) :
        subs[i].pc \in {"fetch", "json", "parsed", "caught"} => btn.disabled

\* C11: once the blur listeners of a required field have run, a field whose
\* trimmed value is empty is marked invalid and shows the localized
\* required-field message, and a field holding valid input is marked valid
\* and shows no message.
C11_BlurValidation ==
    \A f \in RequiredFields : blurred = f =>
        /\ (f # "consent" /\ Trim(form[f]) = <<>>) =>
            /\ marks[f] = "is-invalid"
            /\ feedback[f] = RequiredFieldMsg(currentLang)
        /\ (f \in {"name", "message"} /\ Trim(form[f]) # <<>>) =>
            marks[f] = "is-valid"
        /\ (f = "email" /\ ShapeLocalDomainTld(Trim(form.email))) =>
            marks[f] = "is-valid"
        /\ (f = "consent" /\ form.consent) => marks[f] = "is-valid"

\* C16: after a step that called switchLanguage(lang), every element
\* carrying data-<lang> shows that attribute's text, storage holds lang, the
\* root's lang and data-lang are lang, currentLang is lang, exactly the
\* toggles of lang are active, and the URL has lang=<lang> unless lang is en.
C16_SwitchLanguageEffects ==
    lastSwitch # "" =>
        /\ \A k \in Matching(dom.elems, lastSwitch) :
            dom.elems[k].text = dom.elems[k].attrs[lastSwitch]
        /\ storedLang = lastSwitch
        /\ dom.htmlLang = lastSwitch /\ dom.htmlDataLang = lastSwitch
        /\ currentLang = lastSwitch
        /\ \A k \in 1..Len(dom.toggles) :
            dom.toggles[k].active <=> dom.toggles[k].lang = lastSwitch
        /\ urlLang = IF lastSwitch = "en" THEN "" ELSE lastSwitch

\* C17: init makes active the language of a valid lang URL parameter, else
\* of a valid stored value, else the root's data-lang (default en), and
\* after toggles and a reload that is the language chosen last.
C17_LastChoiceSurvivesReload ==
    [][(loaded = "unloaded" /\ loaded' # "unloaded") =>
        /\ currentLang' =
            IF urlLang \in {"en", "el"} THEN urlLang
            ELSE IF storedLang \in {"en", "el"} THEN storedLang
            ELSE IF markup.htmlDataLang # "" THEN markup.htmlDataLang
            ELSE "en"
        /\ chosen # "" => currentLang' = chosen]_vars

\* C21: every request handleFormSubmit issues passes the handler's
\* required-field, consent, honeypot and e-mail checks: the handler never
\* answers 400 to a submission sent by the form.
C21_ClientPayloadAccepted ==
    \A k \in 1..Len(log) : log[k].status # 400

\* C22: on every page, whatever the number of elements matching each
\* selector, init runs every initializer of its list and reaches its final
\* 'loaded' step.
C22_InitRunsThrough ==
    loaded # "unloaded" => (loaded = "ready" /\ bound = Initializers)

====
